---- MODULE Spec2Model ----
(***************************************************************************)
(* Model of the factoid store of modules/factoid.py: the per-channel       *)
(* facts and aliases dicts, their module-level caches, the bot database    *)
(* and the JSON export, with one action per store function.  Runs with     *)
(* failing or interrupted saves, and runs of two handler threads with one  *)
(* action per statement, have their own next-state relations.              *)
(***************************************************************************)
EXTENDS Integers, Sequences, FiniteSets, TLC

\* Bound on the length of a fact's value list (appends beyond it are not explored).
MaxValues == 2

\* ------------------------------------------------------------------------
\* Strings are sequences of characters, so that lower() and strip() are
\* computed, character by character, as Python computes them.

\* str.lower() on one character.
LowerChar(c) == CASE c = "K" -> "k" [] c = "A" -> "a" [] c = "B" -> "b" [] OTHER -> c

\* str.lower()
Lower(s) == [i \in 1..Len(s) |-> LowerChar(s[i])]

Whitespace == {" "}

RECURSIVE LStrip(_)
LStrip(s) == IF s # <<>> /\ Head(s) \in Whitespace THEN LStrip(Tail(s)) ELSE s

RECURSIVE RStrip(_)
RStrip(s) == IF s # <<>> /\ s[Len(s)] \in Whitespace
             THEN RStrip(SubSeq(s, 1, Len(s) - 1))
             ELSE s

\* str.strip()
Strip(s) == RStrip(LStrip(s))

\* ------------------------------------------------------------------------
\* Inputs of the store functions.

Channels == {"#a", "#b"}

\* The channel of the runs that stay in one channel.
Home == "#a"

\* Keys as typed by users: one key in both casings, and two more keys.
Names == {<<"k">>, <<"K">>, <<"a">>, <<"b">>}

\* The keys of the runs in two channels.
NamesTwo == {<<"K">>, <<"a">>}

Verbs == {"is", "are"}

\* What the command handlers pass as verb and `add`: one text, or two texts
\* with surrounding blanks of which the second is blank. str.split() never
\* returns an empty list.
Teachings == {<<"is", << <<"x">> >> >>,
              <<"are", << <<" ", "y", " ">>, <<" ">> >> >>}

\* ------------------------------------------------------------------------
\* Python dicts are functions with a finite domain.

EmptyDict == <<>>

\* d[k] = v
Put(d, k, v) == [x \in (DOMAIN d) \cup {k} |-> IF x = k THEN v ELSE d[x]]

\* del d[k]
Del(d, k) == [x \in (DOMAIN d) \ {k} |-> d[x]]

VARIABLES
    facts_cache,    \* get_channel_data.facts_cache: channel -> facts dict
    aliases_cache,  \* get_channel_data.aliases_cache: channel -> aliases dict
    db,             \* bot.db channel values: <<channel, key>> -> stored dict
    export_dir,     \* bot.config.has_option('factoid', 'export_dir')
    exported,       \* the export files: channel -> {'facts':, 'aliases':}
    lastOp          \* the last store call: function, outcome, writes completed

\* The same store as the handler threads see it, statement by statement:
\* dict objects with an identity, and each thread's position and locals.
VARIABLES
    cached,         \* the two caches by reference: which -> channel -> object id
    heap,           \* the dict objects the caches have held: object id -> dict
    pc,             \* thread -> the statement it is about to execute
    frame,          \* thread -> the arguments and locals of its call
    dbReads         \* storage key -> number of bot.db.get_channel_value calls

tvars == <<cached, heap, pc, frame, dbReads>>

vars == <<facts_cache, aliases_cache, db, export_dir, exported, lastOp,
          cached, heap, pc, frame, dbReads>>

\* ------------------------------------------------------------------------
\* Values shared by the store functions.

None == <<>>

\* bot.db storage keys
FactsKey == "factoids_facts"
AliasesKey == "factoids_aliases"

\* Which step of set_channel_data raises, if any.
NoFail == "none"
Failures == {NoFail, "facts", "aliases", "export"}

\* get_cached caching an empty dict without reading the database.
GetCachedUnread(key, cache, channel) ==
    IF channel \in DOMAIN cache THEN cache ELSE Put(cache, channel, EmptyDict)

\* get_cached(key, cache) for `channel`: the cache after the call. The value
\* returned by get_cached is the entry of `channel` in it.
GetCached(key, cache, channel) ==
    IF channel \in DOMAIN cache
    THEN cache
    ELSE Put(cache, channel,
             IF <<channel, key>> \in DOMAIN db THEN db[<<channel, key>>] ELSE EmptyDict)

\* set_channel_data storing under every channel.
SetChannelDataAnyChannel(channel, facts, aliases, fail) ==
    [db |-> [x \in (DOMAIN db) \cup (Channels \X {FactsKey, AliasesKey}) |->
                IF x[2] = FactsKey THEN facts ELSE aliases],
     exported |-> IF export_dir THEN Put(exported, channel, [facts |-> facts, aliases |-> aliases])
                  ELSE exported,
     dbWrites |-> 2,
     snapWrites |-> IF export_dir THEN 1 ELSE 0,
     raised |-> FALSE]

\* set_channel_data writing the facts only.
SetChannelDataFactsOnly(channel, facts, aliases, fail) ==
    LET written == fail # "facts"
        dump == written /\ export_dir /\ fail \notin {"aliases", "export"}
    IN  [db |-> IF written THEN Put(db, <<channel, FactsKey>>, facts) ELSE db,
         exported |-> IF dump
                      THEN Put(exported, channel, [facts |-> facts, aliases |-> aliases])
                      ELSE exported,
         dbWrites |-> IF fail = "facts" THEN 0 ELSE IF fail = "aliases" THEN 1 ELSE 2,
         snapWrites |-> IF dump THEN 1 ELSE 0,
         raised |-> \/ fail \in {"facts", "aliases"}
                    \/ (export_dir /\ fail = "export")]

\* set_channel_data: the database and export files after the call, the
\* number of database and export writes that completed, and whether it raised.
SetChannelData(channel, facts, aliases, fail) ==
    LET db1 == IF fail = "facts" THEN db ELSE Put(db, <<channel, FactsKey>>, facts)
        db2 == IF fail \in {"facts", "aliases"}
               THEN db1
               ELSE Put(db1, <<channel, AliasesKey>>, aliases)
        dbDone == fail \notin {"facts", "aliases"}
        obj == [facts |-> facts, aliases |-> aliases]
        dump == dbDone /\ export_dir /\ fail # "export"
    IN  [db |-> db2,
         exported |-> IF dump THEN Put(exported, channel, obj) ELSE exported,
         dbWrites |-> IF fail = "facts" THEN 0 ELSE IF fail = "aliases" THEN 1 ELSE 2,
         snapWrites |-> IF dump THEN 1 ELSE 0,
         raised |-> \/ fail \in {"facts", "aliases"}
                    \/ (export_dir /\ fail = "export")]

\* The alias resolution shared by get_value, add_facts and set_alias:
\* key = aliases[key.lower()], or key itself on KeyError.
ResolveAlias(aliases, key) ==
    IF Lower(key) \in DOMAIN aliases THEN aliases[Lower(key)] ELSE key

\* get_value on the loaded dicts.
GetValueOf(facts, aliases, key) ==
    LET k == ResolveAlias(aliases, key)
    IN  IF Lower(k) \in DOMAIN facts THEN facts[Lower(k)] ELSE None

\* add_facts without the alias resolution.
AddFactsOfNoResolve(facts, aliases, key, verb, add, also) ==
    LET add1 == [i \in 1..Len(add) |-> Strip(add[i])]
    IN  IF Lower(key) \in DOMAIN facts
        THEN IF ~also
             THEN [result |-> "AlreadyDefined", facts |-> facts]
             ELSE [result |-> "ok",
                   facts |-> [facts EXCEPT ![Lower(key)][3] = @ \o add1]]
        ELSE [result |-> "ok", facts |-> Put(facts, Lower(key), <<key, verb, add1>>)]

\* add_facts without value.strip().
AddFactsOfNoStrip(facts, aliases, key, verb, add, also) ==
    LET key1 == ResolveAlias(aliases, key)
    IN  IF Lower(key1) \in DOMAIN facts
        THEN IF ~also
             THEN [result |-> "AlreadyDefined", facts |-> facts]
             ELSE [result |-> "ok",
                   facts |-> [facts EXCEPT ![Lower(key1)][3] = @ \o add]]
        ELSE [result |-> "ok", facts |-> Put(facts, Lower(key1), <<key1, verb, add>>)]

\* add_facts storing the given verb with the extended values.
AddFactsOfGivenVerb(facts, aliases, key, verb, add, also) ==
    LET add1 == [i \in 1..Len(add) |-> Strip(add[i])]
        key1 == ResolveAlias(aliases, key)
    IN  IF Lower(key1) \in DOMAIN facts
        THEN LET stored == facts[Lower(key1)]
             IN  IF ~also
                 THEN [result |-> "AlreadyDefined", facts |-> facts]
                 ELSE [result |-> "ok",
                       facts |-> Put(facts, Lower(stored[1]),
                                     <<stored[1], verb, stored[3] \o add1>>)]
        ELSE [result |-> "ok", facts |-> Put(facts, Lower(key1), <<key1, verb, add1>>)]

\* add_facts storing a new fact under its name as given.
AddFactsOfKeyAsGiven(facts, aliases, key, verb, add, also) ==
    LET add1 == [i \in 1..Len(add) |-> Strip(add[i])]
        key1 == ResolveAlias(aliases, key)
    IN  IF Lower(key1) \in DOMAIN facts
        THEN LET stored == facts[Lower(key1)]
             IN  IF ~also
                 THEN [result |-> "AlreadyDefined", facts |-> facts]
                 ELSE [result |-> "ok",
                       facts |-> Put(facts, Lower(stored[1]),
                                     <<stored[1], stored[2], stored[3] \o add1>>)]
        ELSE [result |-> "ok", facts |-> Put(facts, key1, <<key1, verb, add1>>)]

\* add_facts on the loaded dicts, up to the call of set_channel_data:
\* the FactError raised (or "ok") and the facts dict afterwards.
AddFactsOf(facts, aliases, key, verb, add, also) ==
    LET add1 == [i \in 1..Len(add) |-> Strip(add[i])]
        key1 == ResolveAlias(aliases, key)
    IN  IF Lower(key1) \in DOMAIN facts
        THEN LET stored == facts[Lower(key1)]
                 key2 == stored[1]
                 verb2 == stored[2]
                 values == stored[3] \o add1
                 \* values.extend(add) changes the stored list in place
                 facts1 == [facts EXCEPT ![Lower(key1)] = <<stored[1], stored[2], values>>]
             IN  IF ~also
                 THEN [result |-> "AlreadyDefined", facts |-> facts]
                 ELSE [result |-> "ok",
                       facts |-> Put(facts1, Lower(key2), <<key2, verb2, values>>)]
        ELSE [result |-> "ok", facts |-> Put(facts, Lower(key1), <<key1, verb, add1>>)]

\* set_alias storing the alias before it checks the target.
SetAliasOfLateCheck(facts, aliases, key, value) ==
    IF Lower(key) \in DOMAIN aliases
    THEN [result |-> "AlreadyAlias", aliases |-> aliases]
    ELSE IF Lower(key) \in DOMAIN facts
    THEN [result |-> "AlreadyHasFacts", aliases |-> aliases]
    ELSE LET value1 == ResolveAlias(aliases, value)
             aliases1 == Put(aliases, Lower(key), Lower(value1))
         IN  IF Lower(value1) \notin DOMAIN facts
             THEN [result |-> "UnknownFact", aliases |-> aliases1]
             ELSE [result |-> "ok", aliases |-> aliases1]

\* set_alias without the check for existing facts.
SetAliasOfNoFactCheck(facts, aliases, key, value) ==
    IF Lower(key) \in DOMAIN aliases
    THEN [result |-> "AlreadyAlias", aliases |-> aliases]
    ELSE LET value1 == ResolveAlias(aliases, value)
         IN  IF Lower(value1) \notin DOMAIN facts
             THEN [result |-> "UnknownFact", aliases |-> aliases]
             ELSE [result |-> "ok", aliases |-> Put(aliases, Lower(key), Lower(value1))]

\* set_alias storing the value as given, accepting an alias as target.
SetAliasOfStoreGiven(facts, aliases, key, value) ==
    IF Lower(key) \in DOMAIN aliases
    THEN [result |-> "AlreadyAlias", aliases |-> aliases]
    ELSE IF Lower(key) \in DOMAIN facts
    THEN [result |-> "AlreadyHasFacts", aliases |-> aliases]
    ELSE IF Lower(ResolveAlias(aliases, value)) \notin DOMAIN facts
    THEN [result |-> "UnknownFact", aliases |-> aliases]
    ELSE [result |-> "ok", aliases |-> Put(aliases, Lower(key), Lower(value))]

\* set_alias on the loaded dicts, up to the call of set_channel_data.
SetAliasOf(facts, aliases, key, value) ==
    IF Lower(key) \in DOMAIN aliases
    THEN [result |-> "AlreadyAlias", aliases |-> aliases]
    ELSE IF Lower(key) \in DOMAIN facts
    THEN [result |-> "AlreadyHasFacts", aliases |-> aliases]
    ELSE LET value1 == ResolveAlias(aliases, value)
         IN  IF Lower(value1) \notin DOMAIN facts
             THEN [result |-> "UnknownFact", aliases |-> aliases]
             ELSE [result |-> "ok", aliases |-> Put(aliases, Lower(key), Lower(value1))]

\* delete_value without the removal of the aliases of a deleted fact.
DeleteValueOfNoCascade(facts, aliases, key) ==
    IF Lower(key) \in DOMAIN facts
    THEN [result |-> "ok", facts |-> Del(facts, Lower(key)), aliases |-> aliases]
    ELSE IF Lower(key) \in DOMAIN aliases
    THEN [result |-> "ok", facts |-> facts, aliases |-> Del(aliases, Lower(key))]
    ELSE [result |-> "UnknownKey", facts |-> facts, aliases |-> aliases]

\* delete_value removing every alias along with a deleted fact.
DeleteValueOfAllAliases(facts, aliases, key) ==
    IF Lower(key) \in DOMAIN facts
    THEN [result |-> "ok", facts |-> Del(facts, Lower(key)), aliases |-> EmptyDict]
    ELSE IF Lower(key) \in DOMAIN aliases
    THEN [result |-> "ok", facts |-> facts, aliases |-> Del(aliases, Lower(key))]
    ELSE [result |-> "UnknownKey", facts |-> facts, aliases |-> aliases]

\* delete_value resolving the key through the aliases first.
DeleteValueOfResolved(facts, aliases, key) ==
    LET key1 == ResolveAlias(aliases, key)
    IN  IF Lower(key1) \in DOMAIN facts
        THEN LET pointing == {k \in DOMAIN aliases : aliases[k] = Lower(key1)}
             IN  [result |-> "ok",
                  facts |-> Del(facts, Lower(key1)),
                  aliases |-> [k \in (DOMAIN aliases) \ pointing |-> aliases[k]]]
        ELSE [result |-> "UnknownKey", facts |-> facts, aliases |-> aliases]

\* delete_value on the loaded dicts, up to the call of set_channel_data.
DeleteValueOf(facts, aliases, key) ==
    IF Lower(key) \in DOMAIN facts
    THEN LET pointing == {k \in DOMAIN aliases : aliases[k] = Lower(key)}
         IN  [result |-> "ok",
              facts |-> Del(facts, Lower(key)),
              aliases |-> [k \in (DOMAIN aliases) \ pointing |-> aliases[k]]]
    ELSE IF Lower(key) \in DOMAIN aliases
    THEN [result |-> "ok", facts |-> facts, aliases |-> Del(aliases, Lower(key))]
    ELSE [result |-> "UnknownKey", facts |-> facts, aliases |-> aliases]

\* ------------------------------------------------------------------------
\* The state after the module is imported: empty caches, and a database
\* and export directory holding nothing for any channel.

\* The handler threads of the runs that follow the statements.
Threads == {1, 2}

\* The locals of a thread that runs no handler.
\* `seen` is no local of the code: it notes, for a get_value, the aliases
\* without a fact that its two dicts show when it reads the facts.
IdleFrame == [op |-> "none", key |-> <<>>, value |-> <<>>, facts |-> <<>>,
              aliases |-> <<>>, stored |-> <<>>, result |-> "none", ret |-> <<>>,
              seen |-> {}]

Init ==
    /\ cached = [which \in {"facts", "aliases"} |-> EmptyDict]
    /\ heap = EmptyDict
    /\ pc = [t \in Threads |-> "idle"]
    /\ frame = [t \in Threads |-> IdleFrame]
    /\ dbReads = [k \in {FactsKey, AliasesKey} |-> 0]
    /\ facts_cache = EmptyDict
    /\ aliases_cache = EmptyDict
    /\ db = EmptyDict
    /\ export_dir \in BOOLEAN
    /\ exported = EmptyDict
    /\ lastOp = [op |-> "init", result |-> "ok", dbWrites |-> 0, snapWrites |-> 0]

\* The outcome of a function that ends in set_channel_data.
Outcome(op, result, saved) ==
    [op |-> op,
     result |-> IF result # "ok" THEN result
                ELSE IF saved.raised THEN "IOError" ELSE "ok",
     dbWrites |-> saved.dbWrites, snapWrites |-> saved.snapWrites]

\* A FactError raised before set_channel_data is reached.
NotSaved == [db |-> db, exported |-> exported, dbWrites |-> 0, snapWrites |-> 0,
             raised |-> FALSE]

\* add_facts(bot, channel, key, verb, add, also): the state it leaves.
AddFactsRun(channel, key, verb, add, also, fail) ==
    LET fc == GetCached(FactsKey, facts_cache, channel)
        ac == GetCached(AliasesKey, aliases_cache, channel)
        r == AddFactsOf(fc[channel], ac[channel], key, verb, add, also)
        saved == IF r.result = "ok"
                 THEN SetChannelData(channel, r.facts, ac[channel], fail)
                 ELSE NotSaved
    IN  [facts_cache |-> [fc EXCEPT ![channel] = r.facts],
         aliases_cache |-> ac,
         db |-> saved.db,
         exported |-> saved.exported,
         lastOp |-> Outcome("add_facts", r.result, saved)]

\* set_alias(bot, channel, key, value): the state it leaves.
SetAliasRun(channel, key, value, fail) ==
    LET fc == GetCached(FactsKey, facts_cache, channel)
        ac == GetCached(AliasesKey, aliases_cache, channel)
        r == SetAliasOf(fc[channel], ac[channel], key, value)
        saved == IF r.result = "ok"
                 THEN SetChannelData(channel, fc[channel], r.aliases, fail)
                 ELSE NotSaved
    IN  [facts_cache |-> fc,
         aliases_cache |-> [ac EXCEPT ![channel] = r.aliases],
         db |-> saved.db,
         exported |-> saved.exported,
         lastOp |-> Outcome("set_alias", r.result, saved)]

\* delete_value(bot, channel, key): the state it leaves.
DeleteValueRun(channel, key, fail) ==
    LET fc == GetCached(FactsKey, facts_cache, channel)
        ac == GetCached(AliasesKey, aliases_cache, channel)
        r == DeleteValueOf(fc[channel], ac[channel], key)
        saved == IF r.result = "ok"
                 THEN SetChannelData(channel, r.facts, r.aliases, fail)
                 ELSE NotSaved
    IN  [facts_cache |-> [fc EXCEPT ![channel] = r.facts],
         aliases_cache |-> [ac EXCEPT ![channel] = r.aliases],
         db |-> saved.db,
         exported |-> saved.exported,
         lastOp |-> Outcome("delete_value", r.result, saved)]

\* get_value(bot, channel, key): the state it leaves; `ret` is what it returns.
GetValueRun(channel, key) ==
    LET fc == GetCached(FactsKey, facts_cache, channel)
        ac == GetCached(AliasesKey, aliases_cache, channel)
        ret == GetValueOf(fc[channel], ac[channel], key)
    IN  [facts_cache |-> fc,
         aliases_cache |-> ac,
         db |-> db,
         exported |-> exported,
         ret |-> ret,
         lastOp |-> [op |-> "get_value",
                     result |-> IF ret = None THEN "absent" ELSE "found",
                     dbWrites |-> 0, snapWrites |-> 0]]

\* The names listnames reports: the fact names and the alias keys (it sends
\* each of the two sorted and joined, as a message).
ListNamesOf(facts, aliases) ==
    <<{facts[k][1] : k \in DOMAIN facts}, DOMAIN aliases>>

\* listnames, from its call of get_channel_data on: the state it leaves.
ListNamesRun(channel) ==
    LET fc == GetCached(FactsKey, facts_cache, channel)
        ac == GetCached(AliasesKey, aliases_cache, channel)
    IN  [facts_cache |-> fc,
         aliases_cache |-> ac,
         db |-> db,
         exported |-> exported,
         ret |-> ListNamesOf(fc[channel], ac[channel]),
         lastOp |-> [op |-> "listnames", result |-> "ok",
                     dbWrites |-> 0, snapWrites |-> 0]]

\* The explored states hold facts of at most MaxValues values each.
WithinBounds(post) ==
    \A c \in DOMAIN post.facts_cache : \A k \in DOMAIN post.facts_cache[c] :
        Len(post.facts_cache[c][k][3]) <= MaxValues

\* The handlers' calls of the store functions, as steps.

AddFacts(channel, key, verb, add, also, fail) ==
    LET post == AddFactsRun(channel, key, verb, add, also, fail)
    IN  /\ WithinBounds(post)
        /\ facts_cache' = post.facts_cache
        /\ aliases_cache' = post.aliases_cache
        /\ db' = post.db
        /\ exported' = post.exported
        /\ lastOp' = post.lastOp
        /\ UNCHANGED export_dir
        /\ UNCHANGED tvars

SetAlias(channel, key, value, fail) ==
    LET post == SetAliasRun(channel, key, value, fail)
    IN  /\ WithinBounds(post)
        /\ facts_cache' = post.facts_cache
        /\ aliases_cache' = post.aliases_cache
        /\ db' = post.db
        /\ exported' = post.exported
        /\ lastOp' = post.lastOp
        /\ UNCHANGED export_dir
        /\ UNCHANGED tvars

DeleteValue(channel, key, fail) ==
    LET post == DeleteValueRun(channel, key, fail)
    IN  /\ WithinBounds(post)
        /\ facts_cache' = post.facts_cache
        /\ aliases_cache' = post.aliases_cache
        /\ db' = post.db
        /\ exported' = post.exported
        /\ lastOp' = post.lastOp
        /\ UNCHANGED export_dir
        /\ UNCHANGED tvars

GetValue(channel, key) ==
    LET post == GetValueRun(channel, key)
    IN  /\ WithinBounds(post)
        /\ facts_cache' = post.facts_cache
        /\ aliases_cache' = post.aliases_cache
        /\ db' = post.db
        /\ exported' = post.exported
        /\ lastOp' = post.lastOp
        /\ UNCHANGED export_dir
        /\ UNCHANGED tvars

ListNames(channel) ==
    LET post == ListNamesRun(channel)
    IN  /\ WithinBounds(post)
        /\ facts_cache' = post.facts_cache
        /\ aliases_cache' = post.aliases_cache
        /\ db' = post.db
        /\ exported' = post.exported
        /\ lastOp' = post.lastOp
        /\ UNCHANGED export_dir
        /\ UNCHANGED tvars

\* The calls of the handlers in one channel.
Next ==
    \/ \E key \in Names, t \in Teachings, also \in BOOLEAN :
          AddFacts(Home, key, t[1], t[2], also, NoFail)
    \/ \E key \in Names, value \in Names : SetAlias(Home, key, value, NoFail)
    \/ \E key \in Names : DeleteValue(Home, key, NoFail)
    \/ \E key \in Names : GetValue(Home, key)
    \/ ListNames(Home)

Spec == Init /\ [][Next]_vars

\* The calls of the handlers in two channels, on two keys.
NextTwo ==
    \/ \E c \in Channels, key \in NamesTwo, t \in Teachings, also \in BOOLEAN :
          AddFacts(c, key, t[1], t[2], also, NoFail)
    \/ \E c \in Channels, key \in NamesTwo, value \in NamesTwo :
          SetAlias(c, key, value, NoFail)
    \/ \E c \in Channels, key \in NamesTwo : DeleteValue(c, key, NoFail)
    \/ \E c \in Channels, key \in NamesTwo : GetValue(c, key)
    \/ \E c \in Channels : ListNames(c)

\* The runs in two channels start with the export configured.
InitTwo == Init /\ export_dir

SpecTwo == InitTwo /\ [][NextTwo]_vars

\* ------------------------------------------------------------------------
\* Runs in which a step of set_channel_data can raise, and in which the
\* process can end and a new one start with the database left behind.

\* The process ends inside set_channel_data, before the step `at`: what was
\* written stays, and the module-level caches of the next process are empty.
StopInSave(post) ==
    /\ post.lastOp.result = "IOError"
    /\ WithinBounds(post)
    /\ facts_cache' = EmptyDict
    /\ aliases_cache' = EmptyDict
    /\ db' = post.db
    /\ exported' = post.exported
    /\ lastOp' = [post.lastOp EXCEPT !.result = "stopped"]
    /\ UNCHANGED export_dir
    /\ UNCHANGED tvars

\* The process ends between two calls and a new one starts.
Restart ==
    /\ facts_cache' = EmptyDict
    /\ aliases_cache' = EmptyDict
    /\ lastOp' = [op |-> "restart", result |-> "ok", dbWrites |-> 0, snapWrites |-> 0]
    /\ UNCHANGED <<db, exported, export_dir>>
    /\ UNCHANGED tvars

\* The calls of the handlers in one channel with no export configured,
\* where either database write of set_channel_data may raise.
DbFailures == {NoFail, "facts", "aliases"}

NextFaults ==
    \/ \E key \in NamesTwo, t \in Teachings, also \in BOOLEAN, fail \in DbFailures :
          AddFacts(Home, key, t[1], t[2], also, fail)
    \/ \E key \in NamesTwo, value \in NamesTwo, fail \in DbFailures :
          SetAlias(Home, key, value, fail)
    \/ \E key \in NamesTwo, fail \in DbFailures : DeleteValue(Home, key, fail)
    \/ \E key \in NamesTwo : GetValue(Home, key)
    \/ ListNames(Home)

InitFaults == Init /\ ~export_dir

SpecFaults == InitFaults /\ [][NextFaults]_vars

\* The calls of the handlers in one channel, where the write of the export
\* file may raise.
ExportFailures == {NoFail, "export"}

NextExport ==
    \/ \E key \in NamesTwo, t \in Teachings, also \in BOOLEAN, fail \in ExportFailures :
          AddFacts(Home, key, t[1], t[2], also, fail)
    \/ \E key \in NamesTwo, value \in NamesTwo, fail \in ExportFailures :
          SetAlias(Home, key, value, fail)
    \/ \E key \in NamesTwo, fail \in ExportFailures : DeleteValue(Home, key, fail)
    \/ \E key \in NamesTwo : GetValue(Home, key)
    \/ ListNames(Home)

SpecExport == Init /\ [][NextExport]_vars

\* The calls of the handlers in one channel, where the process may end
\* between two calls or inside set_channel_data.
NextStops ==
    \/ \E key \in NamesTwo, t \in Teachings, also \in BOOLEAN :
          AddFacts(Home, key, t[1], t[2], also, NoFail)
    \/ \E key \in NamesTwo, value \in NamesTwo : SetAlias(Home, key, value, NoFail)
    \/ \E key \in NamesTwo : DeleteValue(Home, key, NoFail)
    \/ \E key \in NamesTwo : GetValue(Home, key)
    \/ ListNames(Home)
    \/ \E key \in NamesTwo, t \in Teachings, also \in BOOLEAN, at \in Failures :
          StopInSave(AddFactsRun(Home, key, t[1], t[2], also, at))
    \/ \E key \in NamesTwo, value \in NamesTwo, at \in Failures :
          StopInSave(SetAliasRun(Home, key, value, at))
    \/ \E key \in NamesTwo, at \in Failures : StopInSave(DeleteValueRun(Home, key, at))
    \/ Restart

SpecStops == InitTwo /\ [][NextStops]_vars

\* ------------------------------------------------------------------------
\* The handlers as the bot runs them: each call in a thread of its own, one
\* statement at a time, on dict objects shared by reference. These runs are
\* in one channel, with no export configured, and teach without `also`.

\* What the sequential calls use, which these runs leave alone.
svars == <<facts_cache, aliases_cache, export_dir, exported, lastOp>>

\* The dict a thread's local `facts` or `aliases` refers to.
DictOf(t, which) == heap[frame[t][which]]

Goto(t, label) == pc' = [pc EXCEPT ![t] = label]

\* The first statement of a function after its call of get_channel_data.
Body(op) ==
    CASE op = "add_facts" -> "add_resolve"
      [] op = "set_alias" -> "alias_check_alias"
      [] op = "delete_value" -> "delete_test"
      [] OTHER -> "get_resolve"

\* A handler thread starts and calls a store function.
Call(t, c) ==
    /\ pc[t] = "idle"
    /\ Goto(t, "facts_test")
    /\ frame' = [frame EXCEPT ![t] = [IdleFrame EXCEPT !.op = c.op, !.key = c.key,
                                                       !.value = c.value]]
    /\ UNCHANGED <<cached, heap, dbReads, db, svars>>

\* get_cached, `if not channel in cache:`, and the return of a cached dict.
CacheTest(t, which, miss, hit) ==
    /\ IF Home \in DOMAIN cached[which]
       THEN /\ Goto(t, hit)
            /\ frame' = [frame EXCEPT ![t][which] = cached[which][Home]]
       ELSE /\ Goto(t, miss)
            /\ UNCHANGED frame
    /\ UNCHANGED <<cached, heap, dbReads, db, svars>>

\* get_cached, `stored = bot.db.get_channel_value(channel, key)`.
CacheRead(t, key, next) ==
    /\ Goto(t, next)
    /\ frame' = [frame EXCEPT ![t].stored =
                    IF <<Home, key>> \in DOMAIN db THEN db[<<Home, key>>] ELSE None]
    /\ dbReads' = [dbReads EXCEPT ![key] = @ + 1]
    /\ UNCHANGED <<cached, heap, db, svars>>

\* get_cached, `cache[channel] = {}` or `cache[channel] = stored`: a new
\* dict object takes the place of whatever the cache holds.
CacheStore(t, which, next) ==
    /\ Goto(t, next)
    /\ heap' = Put(heap, <<which, t>>, frame[t].stored)
    /\ cached' = [cached EXCEPT ![which] = Put(@, Home, <<which, t>>)]
    /\ frame' = [frame EXCEPT ![t].stored = <<>>]
    /\ UNCHANGED <<dbReads, db, svars>>

\* get_cached, `return cache[channel]` after the store.
CacheReturn(t, which, next) ==
    /\ Goto(t, next)
    /\ frame' = [frame EXCEPT ![t][which] = cached[which][Home]]
    /\ UNCHANGED <<cached, heap, dbReads, db, svars>>

FactsTest(t) ==
    /\ pc[t] = "facts_test"
    /\ CacheTest(t, "facts", "facts_read", "aliases_test")

FactsRead(t) ==
    /\ pc[t] = "facts_read"
    /\ CacheRead(t, FactsKey, "facts_store")

FactsStore(t) ==
    /\ pc[t] = "facts_store"
    /\ CacheStore(t, "facts", "facts_return")

FactsReturn(t) ==
    /\ pc[t] = "facts_return"
    /\ CacheReturn(t, "facts", "aliases_test")

AliasesTest(t) ==
    /\ pc[t] = "aliases_test"
    /\ CacheTest(t, "aliases", "aliases_read", Body(frame[t].op))

AliasesRead(t) ==
    /\ pc[t] = "aliases_read"
    /\ CacheRead(t, AliasesKey, "aliases_store")

AliasesStore(t) ==
    /\ pc[t] = "aliases_store"
    /\ CacheStore(t, "aliases", "aliases_return")

AliasesReturn(t) ==
    /\ pc[t] = "aliases_return"
    /\ CacheReturn(t, "aliases", Body(frame[t].op))

\* A statement that reads the shared dicts and the locals: it moves the
\* thread on and changes its locals only.
Local(t, next, newFrame) ==
    /\ Goto(t, next)
    /\ frame' = [frame EXCEPT ![t] = newFrame]
    /\ UNCHANGED <<cached, heap, dbReads, db, svars>>

\* A statement that changes the dict object `id`.
Store(t, next, id, dict) ==
    /\ Goto(t, next)
    /\ heap' = [heap EXCEPT ![id] = dict]
    /\ UNCHANGED <<frame, cached, dbReads, db, svars>>

\* A statement that raises: the call ends with `result`.
Raise(t, result) ==
    Local(t, "done", [frame[t] EXCEPT !.result = result])

\* add_facts, lines 134-138: `key = aliases[key.lower()]`.
AddFactsResolve(t) ==
    /\ pc[t] = "add_resolve"
    /\ Local(t, "add_get",
             [frame[t] EXCEPT !.key = ResolveAlias(DictOf(t, "aliases"), @)])

\* add_facts, lines 140-146 without `also`: the fact exists and FactError
\* is raised, or KeyError is caught and `values = add`.
AddFactsGet(t) ==
    /\ pc[t] = "add_get"
    /\ IF Lower(frame[t].key) \in DOMAIN DictOf(t, "facts")
       THEN Raise(t, "AlreadyDefined")
       ELSE Local(t, "add_put", frame[t])

\* add_facts, line 148: `facts[key.lower()] = (key, verb, values)`.
AddFactsPut(t) ==
    /\ pc[t] = "add_put"
    /\ Store(t, "save_facts", frame[t].facts,
             Put(DictOf(t, "facts"), Lower(frame[t].key),
                 <<frame[t].key, frame[t].value[1],
                   [i \in 1..Len(frame[t].value[2]) |-> Strip(frame[t].value[2][i])]>>))

\* set_alias, lines 155-156.
AliasCheckAlias(t) ==
    /\ pc[t] = "alias_check_alias"
    /\ IF Lower(frame[t].key) \in DOMAIN DictOf(t, "aliases")
       THEN Raise(t, "AlreadyAlias")
       ELSE Local(t, "alias_check_fact", frame[t])

\* set_alias, lines 158-159.
AliasCheckFact(t) ==
    /\ pc[t] = "alias_check_fact"
    /\ IF Lower(frame[t].key) \in DOMAIN DictOf(t, "facts")
       THEN Raise(t, "AlreadyHasFacts")
       ELSE Local(t, "alias_resolve", frame[t])

\* set_alias, lines 163-167: `value = aliases[value.lower()]`.
AliasResolve(t) ==
    /\ pc[t] = "alias_resolve"
    /\ Local(t, "alias_check_target",
             [frame[t] EXCEPT !.value = ResolveAlias(DictOf(t, "aliases"), @)])

\* set_alias, lines 169-170.
AliasCheckTarget(t) ==
    /\ pc[t] = "alias_check_target"
    /\ IF Lower(frame[t].value) \notin DOMAIN DictOf(t, "facts")
       THEN Raise(t, "UnknownFact")
       ELSE Local(t, "alias_put", frame[t])

\* set_alias, line 171: `aliases[key.lower()] = value.lower()`.
AliasPut(t) ==
    /\ pc[t] = "alias_put"
    /\ Store(t, "save_facts", frame[t].aliases,
             Put(DictOf(t, "aliases"), Lower(frame[t].key), Lower(frame[t].value)))

\* delete_value, line 177: `if key.lower() in facts:`.
DeleteTest(t) ==
    /\ pc[t] = "delete_test"
    /\ IF Lower(frame[t].key) \in DOMAIN DictOf(t, "facts")
       THEN Local(t, "delete_fact", frame[t])
       ELSE Local(t, "delete_test_alias", frame[t])

\* delete_value, lines 182-185: `elif key.lower() in aliases:`, else FactError.
DeleteTestAlias(t) ==
    /\ pc[t] = "delete_test_alias"
    /\ IF Lower(frame[t].key) \in DOMAIN DictOf(t, "aliases")
       THEN Local(t, "delete_alias", frame[t])
       ELSE Raise(t, "UnknownKey")

\* delete_value, line 178: `del facts[key.lower()]`, a KeyError when
\* another thread has removed the key since the test.
DeleteFact(t) ==
    /\ pc[t] = "delete_fact"
    /\ IF Lower(frame[t].key) \in DOMAIN DictOf(t, "facts")
       THEN Store(t, "delete_scan", frame[t].facts,
                  Del(DictOf(t, "facts"), Lower(frame[t].key)))
       ELSE Raise(t, "KeyError")

\* delete_value, line 180: the list of the aliases that target the key.
DeleteScan(t) ==
    /\ pc[t] = "delete_scan"
    /\ Local(t, "delete_aliases",
             [frame[t] EXCEPT !.stored =
                 {k \in DOMAIN DictOf(t, "aliases") :
                     DictOf(t, "aliases")[k] = Lower(frame[t].key)}])

\* delete_value, line 181: `del aliases[k]` for the listed aliases (one at
\* most, with the keys of these runs).
DeleteAliases(t) ==
    /\ pc[t] = "delete_aliases"
    /\ IF frame[t].stored \subseteq DOMAIN DictOf(t, "aliases")
       THEN /\ Goto(t, "save_facts")
            /\ heap' = [heap EXCEPT ![frame[t].aliases] =
                           [k \in (DOMAIN @) \ frame[t].stored |-> @[k]]]
            /\ frame' = [frame EXCEPT ![t].stored = <<>>]
            /\ UNCHANGED <<cached, dbReads, db, svars>>
       ELSE Raise(t, "KeyError")

\* delete_value, line 183: `del aliases[key.lower()]`.
DeleteAlias(t) ==
    /\ pc[t] = "delete_alias"
    /\ IF Lower(frame[t].key) \in DOMAIN DictOf(t, "aliases")
       THEN Store(t, "save_facts", frame[t].aliases,
                  Del(DictOf(t, "aliases"), Lower(frame[t].key)))
       ELSE Raise(t, "KeyError")

\* set_channel_data, line 105: the facts dict as it is now is stored.
SaveFacts(t) ==
    /\ pc[t] = "save_facts"
    /\ Goto(t, "save_aliases")
    /\ db' = Put(db, <<Home, FactsKey>>, DictOf(t, "facts"))
    /\ UNCHANGED <<frame, cached, heap, dbReads, svars>>

\* set_channel_data, line 106.
SaveAliases(t) ==
    /\ pc[t] = "save_aliases"
    /\ Goto(t, "save_export")
    /\ db' = Put(db, <<Home, AliasesKey>>, DictOf(t, "aliases"))
    /\ UNCHANGED <<frame, cached, heap, dbReads, svars>>

\* set_channel_data, lines 108-112, and the return to the handler.
SaveExport(t) ==
    /\ pc[t] = "save_export"
    /\ Goto(t, "done")
    /\ exported' = IF export_dir
                   THEN Put(exported, Home, [facts |-> DictOf(t, "facts"),
                                             aliases |-> DictOf(t, "aliases")])
                   ELSE exported
    /\ frame' = [frame EXCEPT ![t].result = "ok"]
    /\ UNCHANGED <<cached, heap, dbReads, db, facts_cache, aliases_cache,
                   export_dir, lastOp>>

\* get_value, lines 120-124: `key = aliases[key.lower()]`.
GetResolve(t) ==
    /\ pc[t] = "get_resolve"
    /\ Local(t, "get_get",
             [frame[t] EXCEPT !.key = ResolveAlias(DictOf(t, "aliases"), @)])

\* get_value, line 126: `return facts.get(key.lower(), None)`.
GetGet(t) ==
    /\ pc[t] = "get_get"
    /\ LET facts == DictOf(t, "facts")
           aliases == DictOf(t, "aliases")
           ret == IF Lower(frame[t].key) \in DOMAIN facts
                  THEN facts[Lower(frame[t].key)]
                  ELSE None
       IN  Local(t, "done",
                 [frame[t] EXCEPT !.ret = ret,
                                  !.result = IF ret = None THEN "absent" ELSE "found",
                                  !.seen = {a \in DOMAIN aliases :
                                               aliases[a] \notin DOMAIN facts}])

\* The handler has replied and its thread ends.
Return(t) ==
    /\ pc[t] = "done"
    /\ Goto(t, "idle")
    /\ frame' = [frame EXCEPT ![t] = IdleFrame]
    /\ UNCHANGED <<cached, heap, dbReads, db, svars>>

\* The calls of the threads that change the store, and of those that read it.
MutatorCalls ==
    {[op |-> "add_facts", key |-> <<"K">>, value |-> <<"is", << <<"x">> >> >>],
     [op |-> "set_alias", key |-> <<"a">>, value |-> <<"K">>],
     [op |-> "delete_value", key |-> <<"K">>, value |-> <<>>],
     [op |-> "delete_value", key |-> <<"a">>, value |-> <<>>]}

ReaderCalls ==
    {[op |-> "get_value", key |-> <<"a">>, value |-> <<>>],
     [op |-> "get_value", key |-> <<"K">>, value |-> <<>>]}

\* Two threads that both change the store, from their first calls on.
NextLoads ==
    \E t \in Threads :
        \/ \E c \in MutatorCalls : Call(t, c)
        \/ FactsTest(t) \/ FactsRead(t) \/ FactsStore(t) \/ FactsReturn(t)
        \/ AliasesTest(t) \/ AliasesRead(t) \/ AliasesStore(t) \/ AliasesReturn(t)
        \/ AddFactsResolve(t) \/ AddFactsGet(t) \/ AddFactsPut(t)
        \/ AliasCheckAlias(t) \/ AliasCheckFact(t) \/ AliasResolve(t)
        \/ AliasCheckTarget(t) \/ AliasPut(t)
        \/ DeleteTest(t) \/ DeleteFact(t) \/ DeleteScan(t) \/ DeleteAliases(t)
        \/ DeleteTestAlias(t) \/ DeleteAlias(t)
        \/ SaveFacts(t) \/ SaveAliases(t) \/ SaveExport(t)
        \/ Return(t)

\* The runs of the threads start with no export configured.
InitThreads == Init /\ ~export_dir

SpecLoads == InitThreads /\ [][NextLoads]_vars

\* The state after a first handler, alone, has called get_channel_data on
\* the channel, which had nothing stored: both caches hold an empty dict.
InitLoaded ==
    /\ cached = [which \in {"facts", "aliases"} |-> Put(EmptyDict, Home, <<which, 0>>)]
    /\ heap = [id \in {<<"facts", 0>>, <<"aliases", 0>>} |-> EmptyDict]
    /\ pc = [t \in Threads |-> "idle"]
    /\ frame = [t \in Threads |-> IdleFrame]
    /\ dbReads = [k \in {FactsKey, AliasesKey} |-> 1]
    /\ facts_cache = EmptyDict
    /\ aliases_cache = EmptyDict
    /\ db = EmptyDict
    /\ export_dir = FALSE
    /\ exported = EmptyDict
    /\ lastOp = [op |-> "init", result |-> "ok", dbWrites |-> 0, snapWrites |-> 0]

\* Two threads that both change the store, on a cached channel.
NextWriters ==
    \E t \in Threads :
        \/ \E c \in MutatorCalls : Call(t, c)
        \/ FactsTest(t) \/ AliasesTest(t)
        \/ AddFactsResolve(t) \/ AddFactsGet(t) \/ AddFactsPut(t)
        \/ AliasCheckAlias(t) \/ AliasCheckFact(t) \/ AliasResolve(t)
        \/ AliasCheckTarget(t) \/ AliasPut(t)
        \/ DeleteTest(t) \/ DeleteFact(t) \/ DeleteScan(t) \/ DeleteAliases(t)
        \/ DeleteTestAlias(t) \/ DeleteAlias(t)
        \/ SaveFacts(t) \/ SaveAliases(t) \/ SaveExport(t)
        \/ Return(t)

SpecWriters == InitLoaded /\ [][NextWriters]_vars

\* One thread that changes the store and one that reads it, on a cached
\* channel.
NextReaders ==
    \/ \E c \in MutatorCalls : Call(1, c)
    \/ \E c \in ReaderCalls : Call(2, c)
    \/ \E t \in Threads :
          \/ FactsTest(t) \/ AliasesTest(t)
          \/ AddFactsResolve(t) \/ AddFactsGet(t) \/ AddFactsPut(t)
          \/ AliasCheckAlias(t) \/ AliasCheckFact(t) \/ AliasResolve(t)
          \/ AliasCheckTarget(t) \/ AliasPut(t)
          \/ DeleteTest(t) \/ DeleteFact(t) \/ DeleteScan(t) \/ DeleteAliases(t)
          \/ DeleteTestAlias(t) \/ DeleteAlias(t)
          \/ SaveFacts(t) \/ SaveAliases(t) \/ SaveExport(t)
          \/ GetResolve(t) \/ GetGet(t)
          \/ Return(t)

SpecReaders == InitLoaded /\ [][NextReaders]_vars

\* ------------------------------------------------------------------------
\* What get_channel_data returns for a channel in a given state: the cached
\* dict, or the stored one (an empty dict when nothing is stored).

Now == [facts_cache |-> facts_cache, aliases_cache |-> aliases_cache,
        db |-> db, exported |-> exported, lastOp |-> lastOp]

Stored(st, c, key) ==
    IF <<c, key>> \in DOMAIN st.db THEN st.db[<<c, key>>] ELSE EmptyDict

FactsIn(st, c) ==
    IF c \in DOMAIN st.facts_cache THEN st.facts_cache[c] ELSE Stored(st, c, FactsKey)

AliasesIn(st, c) ==
    IF c \in DOMAIN st.aliases_cache THEN st.aliases_cache[c] ELSE Stored(st, c, AliasesKey)

Facts(c) == FactsIn(Now, c)
Aliases(c) == AliasesIn(Now, c)

\* lookup(k) in a state
LookupIn(st, c, key) == GetValueOf(FactsIn(st, c), AliasesIn(st, c), key)

Batches == {t[2] : t \in Teachings}

Stripped(add) == [i \in 1..Len(add) |-> Strip(add[i])]

SameKey(k1, k2) == Lower(k1) = Lower(k2)

Taught(st) == st.lastOp.op = "add_facts" /\ st.lastOp.result = "ok"
Aliased(st) == st.lastOp.op = "set_alias" /\ st.lastOp.result = "ok"
Deleted(st) == st.lastOp.op = "delete_value" /\ st.lastOp.result = "ok"

\* C1: every alias targets a key of the facts dict of its channel, and no
\* alias targets a key of the aliases dict.
AliasTargetsAreFacts ==
    \A c \in Channels : \A a \in DOMAIN Aliases(c) :
        /\ Aliases(c)[a] \in DOMAIN Facts(c)
        /\ Aliases(c)[a] \notin DOMAIN Aliases(c)

\* A delete has succeeded and the alias "a" of the fact "k" is left.
AliasTargetsAreFactsWitness ==
    /\ Deleted(Now)
    /\ DOMAIN Aliases(Home) = {<<"a">>}
    /\ Aliases(Home)[<<"a">>] = <<"k">>
    /\ <<"k">> \in DOMAIN Facts(Home)

\* C2: no key is both an alias and a fact key of a channel, and teaching a
\* name that is an alias leaves no fact under that alias name.
AliasesAndFactsDisjoint ==
    \A c \in Channels :
        /\ (DOMAIN Aliases(c)) \cap (DOMAIN Facts(c)) = {}
        /\ \A key \in Names, verb \in Verbs, add \in Batches, also \in BOOLEAN :
              Lower(key) \in DOMAIN Aliases(c) =>
                  Lower(key) \notin
                      DOMAIN FactsIn(AddFactsRun(c, key, verb, add, also, NoFail), c)

\* A teach has succeeded on a channel where an alias targets a fact taught twice.
AliasesAndFactsDisjointWitness ==
    /\ Taught(Now)
    /\ \E c \in Channels : \E a \in DOMAIN Aliases(c) :
          /\ Aliases(c)[a] \in DOMAIN Facts(c)
          /\ Len(Facts(c)[Aliases(c)[a]][3]) = 2

\* C3: a successful teach of a key that resolves to no fact creates a fact
\* that a lookup of the key, in any casing, returns as (the key as given,
\* the given verb, the given values stripped, in order).
TeachCreatesFact ==
    \A c \in Channels, key \in Names, verb \in Verbs, add \in Batches, also \in BOOLEAN :
        LET post == AddFactsRun(c, key, verb, add, also, NoFail)
        IN  (LookupIn(Now, c, key) = None /\ Taught(post)) =>
                \A key2 \in Names :
                    SameKey(key, key2) =>
                        LookupIn(post, c, key2) = <<key, verb, Stripped(add)>>

\* A teach has succeeded and left a fact named "K" with two stripped values,
\* which the lookup of "k" returns.
TeachCreatesFactWitness ==
    /\ Taught(Now)
    /\ \E c \in Channels :
          LookupIn(Now, c, <<"k">>) = << <<"K">>, "are", << <<"y">>, <<>> >> >>

\* C4: a teach with also set, of a key that resolves to a fact, appends the
\* stripped new values to that fact's values, in order, keeps its name and
\* verb, and changes no other fact and no alias.
TeachAlsoAppends ==
    \A c \in Channels, key \in Names, verb \in Verbs, add \in Batches :
        LET post == AddFactsRun(c, key, verb, add, TRUE, NoFail)
            old == LookupIn(Now, c, key)
            fkey == Lower(ResolveAlias(Aliases(c), key))
        IN  old # None =>
                /\ Taught(post)
                /\ DOMAIN FactsIn(post, c) = DOMAIN Facts(c)
                /\ FactsIn(post, c)[fkey] = <<old[1], old[2], old[3] \o Stripped(add)>>
                /\ \A k \in (DOMAIN Facts(c)) \ {fkey} : FactsIn(post, c)[k] = Facts(c)[k]
                /\ AliasesIn(post, c) = Aliases(c)

\* A teach has succeeded on a channel where an alias resolves to the fact
\* named "K" that holds an appended value.
TeachAlsoAppendsWitness ==
    /\ Taught(Now)
    /\ \E c \in Channels : \E a \in DOMAIN Aliases(c) :
          LookupIn(Now, c, a) = << <<"K">>, "is", << <<"x">>, <<"x">> >> >>

\* C5: a call that fails with a FactError leaves the facts and aliases of
\* its channel, the database and the export files as they were, and writes
\* nothing.
FactErrors == {"AlreadyDefined", "AlreadyAlias", "AlreadyHasFacts", "UnknownFact",
               "UnknownKey"}

LeftUntouched(post, c) ==
    /\ FactsIn(post, c) = Facts(c)
    /\ AliasesIn(post, c) = Aliases(c)
    /\ post.db = db
    /\ post.exported = exported
    /\ post.lastOp.dbWrites = 0
    /\ post.lastOp.snapWrites = 0
    /\ \A key \in Names : LookupIn(post, c, key) = LookupIn(Now, c, key)

FailedCallsChangeNothing ==
    \A c \in Channels, key \in Names :
        /\ \A verb \in Verbs, add \in Batches, also \in BOOLEAN :
              LET post == AddFactsRun(c, key, verb, add, also, NoFail)
              IN  /\ post.lastOp.result \in FactErrors => LeftUntouched(post, c)
                  /\ (~also /\ LookupIn(Now, c, key) # None) =>
                         post.lastOp.result = "AlreadyDefined"
        /\ \A value \in Names :
              LET post == SetAliasRun(c, key, value, NoFail)
              IN  post.lastOp.result \in FactErrors => LeftUntouched(post, c)
        /\ LET post == DeleteValueRun(c, key, NoFail)
           IN  post.lastOp.result \in FactErrors => LeftUntouched(post, c)

\* A teach has just failed with AlreadyDefined on a channel that holds a
\* fact and an alias, with the export configured.
FailedCallsChangeNothingWitness ==
    /\ lastOp.op = "add_facts"
    /\ lastOp.result = "AlreadyDefined"
    /\ export_dir
    /\ \E c \in Channels : DOMAIN Facts(c) # {} /\ DOMAIN Aliases(c) # {}

\* C6: set_alias fails with AlreadyAlias when the lowercased key is an alias,
\* else with AlreadyHasFacts when it is a fact key, else with UnknownFact
\* when the value, resolved through one alias step, is no fact key, and
\* succeeds otherwise; a stored alias never targets itself or a missing fact.
ExpectedAliasResult(c, key, value) ==
    LET target == IF Lower(value) \in DOMAIN Aliases(c)
                  THEN Aliases(c)[Lower(value)]
                  ELSE Lower(value)
    IN  IF Lower(key) \in DOMAIN Aliases(c) THEN "AlreadyAlias"
        ELSE IF Lower(key) \in DOMAIN Facts(c) THEN "AlreadyHasFacts"
        ELSE IF target \notin DOMAIN Facts(c) THEN "UnknownFact"
        ELSE "ok"

AliasErrorsInOrder ==
    \A c \in Channels, key \in Names, value \in Names :
        LET post == SetAliasRun(c, key, value, NoFail)
        IN  /\ post.lastOp.result = ExpectedAliasResult(c, key, value)
            /\ Aliased(post) =>
                  /\ Lower(key) \in DOMAIN AliasesIn(post, c)
                  /\ AliasesIn(post, c)[Lower(key)] # Lower(key)
                  /\ AliasesIn(post, c)[Lower(key)] \in DOMAIN FactsIn(post, c)

\* An alias call has just failed with AlreadyHasFacts on a channel that
\* holds an alias too.
AliasErrorsInOrderWitness ==
    /\ lastOp.op = "set_alias"
    /\ lastOp.result = "AlreadyHasFacts"
    /\ \E c \in Channels : DOMAIN Aliases(c) # {} /\ DOMAIN Facts(c) # {}

\* C7: a successful set_alias(b, t) stores b with the fact key t resolves
\* to, never with an alias; every alias looks up what its target looks up,
\* which is a fact; and resolving a key twice gives what resolving it once gives.
AliasChainsCollapse ==
    \A c \in Channels :
        /\ \A key \in Names, value \in Names :
              LET post == SetAliasRun(c, key, value, NoFail)
                  stored == AliasesIn(post, c)[Lower(key)]
              IN  Aliased(post) =>
                      /\ stored = Lower(ResolveAlias(Aliases(c), value))
                      /\ stored \notin DOMAIN AliasesIn(post, c)
                      /\ Lower(value) \in DOMAIN Aliases(c) =>
                             stored = Aliases(c)[Lower(value)]
        /\ \A a \in DOMAIN Aliases(c) :
              /\ LookupIn(Now, c, a) # None
              /\ LookupIn(Now, c, a) = LookupIn(Now, c, Aliases(c)[a])
        /\ \A key \in Names :
              Lower(ResolveAlias(Aliases(c), ResolveAlias(Aliases(c), key)))
                  = Lower(ResolveAlias(Aliases(c), key))

\* An alias call has succeeded and two aliases, "a" and "b", target the fact "k".
AliasChainsCollapseWitness ==
    /\ Aliased(Now)
    /\ \E c \in Channels :
          /\ DOMAIN Aliases(c) = {<<"a">>, <<"b">>}
          /\ Aliases(c)[<<"a">>] = <<"k">>
          /\ Aliases(c)[<<"b">>] = <<"k">>

\* C8: delete_value of a fact key removes that fact and exactly the aliases
\* that target it; the other facts and aliases stay as they are, and the
\* deleted key and the removed aliases look up to nothing afterwards.
DeleteFactCascades ==
    \A c \in Channels, key \in Names :
        LET post == DeleteValueRun(c, key, NoFail)
            gone == {a \in DOMAIN Aliases(c) : Aliases(c)[a] = Lower(key)}
        IN  Lower(key) \in DOMAIN Facts(c) =>
                /\ Deleted(post)
                /\ DOMAIN FactsIn(post, c) = (DOMAIN Facts(c)) \ {Lower(key)}
                /\ \A k \in DOMAIN FactsIn(post, c) : FactsIn(post, c)[k] = Facts(c)[k]
                /\ DOMAIN AliasesIn(post, c) = (DOMAIN Aliases(c)) \ gone
                /\ \A a \in DOMAIN AliasesIn(post, c) :
                      AliasesIn(post, c)[a] = Aliases(c)[a]
                /\ \A k \in Names :
                      (SameKey(k, key) \/ Lower(k) \in gone) =>
                          LookupIn(post, c, k) = None

\* A delete has succeeded and left the fact "b" and no alias, in the cache
\* and in the database.
DeleteFactCascadesWitness ==
    /\ Deleted(Now)
    /\ DOMAIN Facts(Home) = {<<"b">>}
    /\ DOMAIN Aliases(Home) = {}
    /\ Stored(Now, Home, FactsKey) = Facts(Home)
    /\ Stored(Now, Home, AliasesKey) = EmptyDict

\* C9: delete_value of a key that is an alias and no fact key removes that
\* alias alone and leaves every fact and every other alias; of a key that
\* is neither, it fails with UnknownKey.
DeleteAliasOnly ==
    \A c \in Channels, key \in Names :
        LET post == DeleteValueRun(c, key, NoFail)
        IN  /\ (Lower(key) \notin DOMAIN Facts(c) /\ Lower(key) \in DOMAIN Aliases(c)) =>
                  /\ Deleted(post)
                  /\ FactsIn(post, c) = Facts(c)
                  /\ DOMAIN AliasesIn(post, c) = (DOMAIN Aliases(c)) \ {Lower(key)}
                  /\ \A a \in DOMAIN AliasesIn(post, c) :
                        AliasesIn(post, c)[a] = Aliases(c)[a]
            /\ (Lower(key) \notin DOMAIN Facts(c) /\ Lower(key) \notin DOMAIN Aliases(c)) =>
                  post.lastOp.result = "UnknownKey"

\* A delete has succeeded and left the fact "a" with its alias "b".
DeleteAliasOnlyWitness ==
    /\ Deleted(Now)
    /\ DOMAIN Facts(Home) = {<<"a">>}
    /\ DOMAIN Aliases(Home) = {<<"b">>}
    /\ Aliases(Home)[<<"b">>] = <<"a">>

\* C10: a call on one channel, whatever its outcome, leaves the cached and
\* the stored facts and aliases of every other channel as they were.
OtherChannelSame(post, c) ==
    \A c2 \in Channels \ {c} :
        /\ FactsIn(post, c2) = Facts(c2)
        /\ AliasesIn(post, c2) = Aliases(c2)
        /\ (c2 \in DOMAIN post.facts_cache) = (c2 \in DOMAIN facts_cache)
        /\ (c2 \in DOMAIN post.aliases_cache) = (c2 \in DOMAIN aliases_cache)
        /\ \A key \in {FactsKey, AliasesKey} :
              /\ (<<c2, key>> \in DOMAIN post.db) = (<<c2, key>> \in DOMAIN db)
              /\ Stored(post, c2, key) = Stored(Now, c2, key)

ChannelsAreIsolated ==
    \A c \in Channels, key \in Names :
        /\ \A t \in Teachings, also \in BOOLEAN, fail \in Failures :
              OtherChannelSame(AddFactsRun(c, key, t[1], t[2], also, fail), c)
        /\ \A value \in Names, fail \in Failures :
              OtherChannelSame(SetAliasRun(c, key, value, fail), c)
        /\ \A fail \in Failures : OtherChannelSame(DeleteValueRun(c, key, fail), c)
        /\ OtherChannelSame(GetValueRun(c, key), c)
        /\ OtherChannelSame(ListNamesRun(c), c)

\* A call has succeeded while both channels hold a fact under the key "k",
\* with different contents.
ChannelsAreIsolatedWitness ==
    /\ lastOp.result = "ok"
    /\ lastOp.dbWrites = 2
    /\ <<"k">> \in DOMAIN Facts("#a")
    /\ <<"k">> \in DOMAIN Facts("#b")
    /\ Facts("#a")[<<"k">>] # Facts("#b")[<<"k">>]


\* ------------------------------------------------------------------------
\* Calls whose save raises.

Mutators == {"add_facts", "set_alias", "delete_value"}

\* The last call reached set_channel_data and a database write raised.
PersistFailed == lastOp.result = "IOError" /\ lastOp.dbWrites < 2

\* C11: a teach, alias or delete call in which a database write raises
\* leaves the facts and aliases dicts of its channel, and what every key
\* looks up, as they were before the call.
PersistFailureKeepsMemory ==
    [][PersistFailed' =>
          /\ Facts(Home)' = Facts(Home)
          /\ Aliases(Home)' = Aliases(Home)
          /\ \A key \in NamesTwo : LookupIn(Now, Home, key)' = LookupIn(Now, Home, key)]_vars

\* C12: with the export configured, a teach, alias or delete call whose two
\* database writes succeeded ends as a success even when the export write
\* raises, and its change stays in the dicts and in the database.
SnapshotFailureNotPropagated ==
    (export_dir /\ lastOp.op \in Mutators /\ lastOp.dbWrites = 2) =>
        /\ lastOp.result = "ok"
        /\ Stored(Now, Home, FactsKey) = Facts(Home)
        /\ Stored(Now, Home, AliasesKey) = Aliases(Home)

\* C14: after a teach, alias or delete call that succeeded, both database
\* keys of the channel exist and hold the cached facts and aliases dicts,
\* and the call wrote both.
PersistedEqualsMemory ==
    (lastOp.op \in Mutators /\ lastOp.result = "ok") =>
        /\ lastOp.dbWrites = 2
        /\ Home \in DOMAIN facts_cache
        /\ Home \in DOMAIN aliases_cache
        /\ <<Home, FactsKey>> \in DOMAIN db
        /\ <<Home, AliasesKey>> \in DOMAIN db
        /\ db[<<Home, FactsKey>>] = facts_cache[Home]
        /\ db[<<Home, AliasesKey>>] = aliases_cache[Home]

\* A teach has succeeded that changed no alias, and the stored aliases
\* are the cached ones: "a" for the fact "k", which holds two values.
PersistedEqualsMemoryWitness ==
    /\ Taught(Now)
    /\ <<Home, AliasesKey>> \in DOMAIN db
    /\ DOMAIN db[<<Home, AliasesKey>>] = {<<"a">>}
    /\ db[<<Home, AliasesKey>>] = aliases_cache[Home]
    /\ Len(db[<<Home, FactsKey>>][<<"k">>][3]) = 2


\* ------------------------------------------------------------------------
\* The values of the facts.

\* C15: every fact holds at least one value, and none of its values is
\* empty once its surrounding blanks are stripped.
FactValuesNonBlank ==
    \A c \in Channels : \A k \in DOMAIN Facts(c) :
        /\ Len(Facts(c)[k][3]) >= 1
        /\ \A i \in 1..Len(Facts(c)[k][3]) : Strip(Facts(c)[k][3][i]) # <<>>


\* ------------------------------------------------------------------------
\* The keys of the facts dict.

\* C20: every fact is stored under its own name in lower case, so no two
\* facts have names that differ in case only; and a teach of an existing
\* name in any casing fails with AlreadyDefined, or appends with also set,
\* and leaves the keys of the facts dict and the stored name as they were.
FactsKeyedByLowerName ==
    /\ \A k \in DOMAIN Facts(Home) : k = Lower(Facts(Home)[k][1])
    /\ \A k1 \in DOMAIN Facts(Home), k2 \in DOMAIN Facts(Home) :
          SameKey(Facts(Home)[k1][1], Facts(Home)[k2][1]) => k1 = k2
    /\ \A key \in Names, t \in Teachings, also \in BOOLEAN :
          LET post == AddFactsRun(Home, key, t[1], t[2], also, NoFail)
          IN  Lower(key) \in DOMAIN Facts(Home) =>
                  /\ post.lastOp.result = IF also THEN "ok" ELSE "AlreadyDefined"
                  /\ DOMAIN FactsIn(post, Home) = DOMAIN Facts(Home)
                  /\ FactsIn(post, Home)[Lower(key)][1] = Facts(Home)[Lower(key)][1]
                  /\ LookupIn(post, Home, key)[1] = Facts(Home)[Lower(key)][1]

\* A teach of "k" has just failed with AlreadyDefined where the fact is
\* named "K", and another fact exists.
FactsKeyedByLowerNameWitness ==
    /\ lastOp.op = "add_facts"
    /\ lastOp.result = "AlreadyDefined"
    /\ <<"k">> \in DOMAIN Facts(Home)
    /\ Facts(Home)[<<"k">>][1] = <<"K">>
    /\ <<"b">> \in DOMAIN Facts(Home)


\* ------------------------------------------------------------------------
\* Reads, and the process ending inside a save.

\* What a read call may change: nothing but the caching of what is stored.
ReadOnly(post, c) ==
    /\ \A c2 \in Channels :
          /\ FactsIn(post, c2) = Facts(c2)
          /\ AliasesIn(post, c2) = Aliases(c2)
    /\ post.db = db
    /\ post.exported = exported
    /\ post.lastOp.dbWrites = 0
    /\ post.lastOp.snapWrites = 0

\* C16: get_value and listnames leave the facts and aliases of every
\* channel, the database and the export files as they were, whether or not
\* the channel was cached; get_value returns None for a key that resolves
\* to no fact, and the stored fact otherwise.
ReadsChangeNothing ==
    \A c \in Channels :
        /\ \A key \in Names :
              LET post == GetValueRun(c, key)
                  fkey == Lower(ResolveAlias(Aliases(c), key))
              IN  /\ ReadOnly(post, c)
                  /\ post.ret = IF fkey \in DOMAIN Facts(c) THEN Facts(c)[fkey] ELSE None
                  /\ post.lastOp.result \in {"found", "absent"}
        /\ LET post == ListNamesRun(c)
           IN  /\ ReadOnly(post, c)
               /\ post.ret = <<{Facts(c)[k][1] : k \in DOMAIN Facts(c)}, DOMAIN Aliases(c)>>

\* A get_value has just returned None in a process that loaded the alias
\* "a" of a fact "k" which the database does not hold.
ReadsChangeNothingWitness ==
    /\ lastOp.op = "get_value"
    /\ lastOp.result = "absent"
    /\ Home \in DOMAIN facts_cache
    /\ <<"a">> \in DOMAIN aliases_cache[Home]
    /\ aliases_cache[Home] = Stored(Now, Home, AliasesKey)
    /\ facts_cache[Home] = Stored(Now, Home, FactsKey)

\* C19: when the process has ended inside a save, every stored alias of the
\* channel targets a stored fact, and no stored alias key is a stored fact key.
StoppedSaveKeepsInvariants ==
    lastOp.result = "stopped" =>
        /\ \A a \in DOMAIN Stored(Now, Home, AliasesKey) :
              Stored(Now, Home, AliasesKey)[a] \in DOMAIN Stored(Now, Home, FactsKey)
        /\ (DOMAIN Stored(Now, Home, AliasesKey)) \cap (DOMAIN Stored(Now, Home, FactsKey)) = {}


\* ------------------------------------------------------------------------
\* Handler threads.

\* The dict the cache holds for the channel.
CachedDict(which) == heap[cached[which][Home]]

\* No call is in progress.
Quiet == \A t \in Threads : pc[t] = "idle"

\* The thread has its two dicts from get_channel_data.
HasDicts(t) ==
    pc[t] \notin {"idle", "facts_test", "facts_read", "facts_store", "facts_return",
                  "aliases_test", "aliases_read", "aliases_store", "aliases_return"}

\* C13: teach, alias and delete calls of concurrent handlers take effect
\* one after the other, so whenever none is in progress every cached alias
\* of the channel targets a cached fact.
MutationsDoNotInterleave ==
    (Quiet /\ Home \in DOMAIN cached["facts"] /\ Home \in DOMAIN cached["aliases"]) =>
        \A a \in DOMAIN CachedDict("aliases") :
            CachedDict("aliases")[a] \in DOMAIN CachedDict("facts")

\* C17: a get_value that runs on the cached dicts while a teach, alias or
\* delete call is in progress never finds, at its read of the facts, an
\* alias whose fact is gone.
ReadersSeeWholeMutations ==
    \A t \in Threads :
        (/\ pc[t] = "done"
         /\ frame[t].op = "get_value"
         /\ frame[t].facts = cached["facts"][Home]
         /\ frame[t].aliases = cached["aliases"][Home]) =>
            frame[t].seen = {}

\* C18: each storage key of the channel is read from the database once at
\* most, and the dicts a call got from get_channel_data are the ones the
\* caches hold, whatever other calls have done since.
CacheLoadedOnce ==
    /\ \A k \in {FactsKey, AliasesKey} : dbReads[k] <= 1
    /\ \A t \in Threads :
          HasDicts(t) =>
              /\ frame[t].facts = cached["facts"][Home]
              /\ frame[t].aliases = cached["aliases"][Home]

====
